---------------------------- MODULE Spec2Model ----------------------------
(***************************************************************************)
(* Model of the Clash node viewer: parseClashNodes (section scanner and    *)
(* record extractor, src/services/clashService.ts 35-104), fetchClashConfig*)
(* (10-19) and the App component's handleFetchNodes (121-147).             *)
(*                                                                         *)
(* A JavaScript string is the sequence of its UTF-16 code units, so that    *)
(* trim, startsWith, split and the regular expressions are computed        *)
(* character by character.  An ASCII character is the string of that one   *)
(* character; a code unit outside ASCII is named by the letter u and its   *)
(* four hexadecimal digits in upper case: "u00E9" is U+00E9, "u00A0" the   *)
(* no-break space, <<"u9999", "u6E2F">> a string of two characters.        *)
(***************************************************************************)
EXTENDS Integers, Sequences, FiniteSets, TLC

VARIABLES
    \* ---- parseClashNodes, the loop over the lines (35-104)
    lines,              \* the lines consumed so far by `for (const line of lines)`
    inProxiesSection,   \* let inProxiesSection
    nodes,              \* const nodes: ClashNode[]
    nodeLine,           \* history: for each node, the index of the line that produced it
    sectionLog,         \* history: for each line, how the scanner treated it
    warnings,           \* number of console.warn calls (line 98)
    scanPc,             \* "loop" inside the for loop, "returned" after `return nodes`
    \* ---- the record extractor on one record body (64-99)
    propertiesString,   \* nodeMatch[1]
    pairs,              \* const pairs = propertiesString.split(...)
    pairIdx,            \* position of `for (const pair of pairs)`
    props,              \* const props
    recPc,              \* "split", "pairs", "validate", "pushed", "skipped", "off"
    \* ---- the App component (111-147, 165-177)
    url,                \* useState url
    stateNodes,         \* useState nodes
    loading,            \* useState loading
    error,              \* useState error
    calls,              \* invocations of handleFetchNodes suspended at line 133 on a fetch
    jobs,               \* invocations suspended at line 133 on the rejection of line 12
    started,            \* history: number of invocations started so far
    outcome             \* history: what the invocation started last displays once settled

scanVars == <<lines, inProxiesSection, nodes, nodeLine, sectionLog, warnings, scanPc>>
recVars  == <<propertiesString, pairs, pairIdx, props, recPc>>
appVars  == <<url, stateNodes, loading, error, calls, jobs, started, outcome>>
vars     == <<scanVars, recVars, appVars>>

-----------------------------------------------------------------------------
(* Strings                                                                 *)

\* String.prototype.trim, \s and Number() take the same characters for white
\* space: tab, line feed, vertical tab, form feed, carriage return and space,
\* and outside ASCII the no-break space, the ogham space mark, the spaces
\* U+2000 to U+200A, the line and paragraph separators, the narrow no-break
\* space, the medium mathematical space, the ideographic space and the byte
\* order mark.
WhiteSpace ==
    {"\t", "\n", "", "\f", "\r", " ",
     "u00A0", "u1680",
     "u2000", "u2001", "u2002", "u2003", "u2004", "u2005", "u2006", "u2007", "u2008",
     "u2009", "u200A",
     "u2028", "u2029", "u202F", "u205F", "u3000", "uFEFF"}

IsSpace(c) == c \in WhiteSpace

\* the positions of s that hold no white space
Solid(s) == {i \in 1..Len(s) : ~IsSpace(s[i])}

Min(S) == CHOOSE x \in S : \A y \in S : x <= y

Max(S) == CHOOSE x \in S : \A y \in S : x >= y

TrimStart(s) == IF Solid(s) = {} THEN <<>> ELSE SubSeq(s, Min(Solid(s)), Len(s))

TrimEnd(s) == IF Solid(s) = {} THEN <<>> ELSE SubSeq(s, 1, Max(Solid(s)))

Trim(s) == TrimEnd(TrimStart(s))

StartsWith(s, p) == Len(s) >= Len(p) /\ SubSeq(s, 1, Len(p)) = p

EndsWith(s, p) == Len(s) >= Len(p) /\ SubSeq(s, Len(s) - Len(p) + 1, Len(s)) = p

Includes(s, p) == \E i \in 1..(Len(s) - Len(p) + 1) : SubSeq(s, i, i + Len(p) - 1) = p

\* s.substring(from) with a 1-based index
From(s, i) == SubSeq(s, i, Len(s))

\* String.prototype.split(c) for a one-character separator: every piece.
RECURSIVE SplitChar(_, _)
SplitChar(s, c) ==
    LET at == {i \in 1..Len(s) : s[i] = c}
    IN  IF at = {} THEN <<s>>
        ELSE <<SubSeq(s, 1, Min(at) - 1)>> \o SplitChar(From(s, Min(at) + 1), c)

\* String.prototype.split(c, limit): the pieces are computed as without a
\* limit and the array is cut after `limit` of them; what follows is dropped.
SplitLimit(s, c, limit) ==
    LET all == SplitChar(s, c)
    IN  IF Len(all) <= limit THEN all ELSE SubSeq(all, 1, limit)

RECURSIVE Join(_, _)
Join(ls, c) ==
    IF ls = <<>> THEN <<>>
    ELSE IF Len(ls) = 1 THEN ls[1]
    ELSE ls[1] \o <<c>> \o Join(Tail(ls), c)


\* String.prototype.substring(a, b) with 0-based a, b as in the source:
\* arguments below 0 or above the length are clamped, and swapped if a > b.
Substring(s, a, b) ==
    LET Clamp(x) == IF x < 0 THEN 0 ELSE IF x > Len(s) THEN Len(s) ELSE x
        lo == IF Clamp(a) <= Clamp(b) THEN Clamp(a) ELSE Clamp(b)
        hi == IF Clamp(a) <= Clamp(b) THEN Clamp(b) ELSE Clamp(a)
    IN  SubSeq(s, lo + 1, hi)

-----------------------------------------------------------------------------
(* Number(value): the StringToNumber conversion                            *)

\* A natural number in decimal is the sequence of its digits, most
\* significant first and without leading zeros; zero is the empty sequence.
\* A JavaScript number is NaN, +Infinity or -Infinity (inf = 1 or -1), zero,
\* or a finite double: the double is named by the shortest decimal that
\* rounds to it (the digits Number.prototype.toString prints), as the
\* digits n without trailing zeros, the power of ten e and the sign neg, so
\* that the value is n * 10^e.  -0 and +0, which === identifies, are both
\* Zero.
NaN == [nan |-> TRUE, inf |-> 0, neg |-> FALSE, n |-> <<>>, e |-> 0]

Infinite(sign) == [nan |-> FALSE, inf |-> sign, neg |-> FALSE, n |-> <<>>, e |-> 0]

Zero == [nan |-> FALSE, inf |-> 0, neg |-> FALSE, n |-> <<>>, e |-> 0]

Finite(sign, n, e) == [nan |-> FALSE, inf |-> 0, neg |-> sign < 0, n |-> n, e |-> e]

HexDigits == <<"0", "1", "2", "3", "4", "5", "6", "7", "8", "9",
               "a", "b", "c", "d", "e", "f", "A", "B", "C", "D", "E", "F">>

\* the value of digit c, or 16 when c is no digit
DigitVal(c) ==
    IF \E i \in 1..16 : HexDigits[i] = c
    THEN (CHOOSE i \in 1..16 : HexDigits[i] = c) - 1
    ELSE IF \E i \in 17..22 : HexDigits[i] = c
    THEN (CHOOSE i \in 17..22 : HexDigits[i] = c) - 7
    ELSE 16

IsDigit(c, radix) == DigitVal(c) < radix

AllDigits(s, radix) == s # <<>> /\ \A i \in 1..Len(s) : IsDigit(s[i], radix)

\* the decimal digits that s begins with
TakeDigits(s) ==
    LET other == {i \in 1..Len(s) : ~IsDigit(s[i], 10)}
    IN  IF other = {} THEN s ELSE SubSeq(s, 1, Min(other) - 1)

\* ---- arithmetic on decimal digit sequences

NonZero(x) == {i \in 1..Len(x) : x[i] # 0}

StripLeading(x) == IF NonZero(x) = {} THEN <<>> ELSE SubSeq(x, Min(NonZero(x)), Len(x))

StripTrailing(x) == IF NonZero(x) = {} THEN <<>> ELSE SubSeq(x, 1, Max(NonZero(x)))

\* x with zeros in front, up to the width w
Pad(x, w) == [i \in 1..(w - Len(x)) |-> 0] \o x

\* 2 * x: every digit is doubled and takes the carry of the digit after it
Times2(x) ==
    (IF x # <<>> /\ x[1] >= 5 THEN <<1>> ELSE <<>>)
    \o SubSeq([i \in 1..Len(x) |->
                  ((2 * x[i]) % 10) + (IF i < Len(x) /\ x[i + 1] >= 5 THEN 1 ELSE 0)],
              1, Len(x))

\* 5 * x, as (10 * x) / 2: every digit is halved and takes 5 from an odd
\* digit before it
Times5(x) ==
    IF x = <<>> THEN <<>> ELSE
    SubSeq([i \in 1..(Len(x) + 1) |->
               ((IF i <= Len(x) THEN x[i] ELSE 0) \div 2)
               + (IF i > 1 /\ x[i - 1] % 2 = 1 THEN 5 ELSE 0)],
           IF x # <<>> /\ x[1] = 1 THEN 2 ELSE 1, Len(x) + 1)

\* a < b for digit sequences of one length
LessDigits(a, b) ==
    \E i \in 1..Len(a) : a[i] < b[i] /\ \A j \in 1..(i - 1) : a[j] = b[j]

\* a < b for natural numbers
Less(a, b) == Len(a) < Len(b) \/ (Len(a) = Len(b) /\ LessDigits(a, b))

\* x + 1, with the width of x kept (x is not all nines)
IncDigits(x) ==
    [i \in 1..Len(x) |->
        IF \E j \in (i + 1)..Len(x) : x[j] # 9 THEN x[i]
        ELSE IF x[i] = 9 THEN 0 ELSE x[i] + 1]

\* x + 1
Inc(x) == StripLeading(IncDigits(<<0>> \o x))

\* x - 1, for x > 0
Dec(x) ==
    StripLeading([i \in 1..Len(x) |->
                     IF \E j \in (i + 1)..Len(x) : x[j] # 0 THEN x[i]
                     ELSE IF x[i] = 0 THEN 9 ELSE x[i] - 1])

\* ---- rounding to the nearest double, ties to even

\* 2^52 and 2^53: a double is m * 2^q with 2^52 <= m < 2^53, or with
\* m < 2^52 and q = -1074 (subnormal)
Two52 == <<4, 5, 0, 3, 5, 9, 9, 6, 2, 7, 3, 7, 0, 4, 9, 6>>

Two53 == <<9, 0, 0, 7, 1, 9, 9, 2, 5, 4, 7, 4, 0, 9, 9, 2>>

\* the integer part and the k fraction digits of X / 10^k
IntPart(X, k) == IF Len(X) > k THEN SubSeq(X, 1, Len(X) - k) ELSE <<>>

FracPart(X, k) == IF Len(X) >= k THEN SubSeq(X, Len(X) - k + 1, Len(X)) ELSE Pad(X, k)

\* The value is (X / 10^k) * 2^q.  One step halves X / 10^k (5 * X over
\* 10^(k+1)) while its integer part has more than 53 bits, doubles it while
\* the integer part has fewer and q is above the subnormal exponent.
TooLarge(st) == ~Less(IntPart(st.X, st.k), Two53)

TooSmall(st) == Less(IntPart(st.X, st.k), Two52) /\ st.q > -1074

ScaleStep(st) ==
    IF TooLarge(st) THEN [X |-> Times5(st.X), k |-> st.k + 1, q |-> st.q + 1]
    ELSE IF TooSmall(st) THEN [X |-> Times2(st.X), k |-> st.k, q |-> st.q - 1]
    ELSE st

\* up to count steps, the first half of them before the second
RECURSIVE ScaleSteps(_, _)
ScaleSteps(st, count) ==
    IF ~TooLarge(st) /\ ~TooSmall(st) THEN st
    ELSE IF count = 1 THEN ScaleStep(st)
    ELSE ScaleSteps(ScaleSteps(st, count \div 2), count - (count \div 2))

\* the fraction F is above one half, or is one half and the integer I is odd
RoundUp(I, F) ==
    /\ F # <<>>
    /\ \/ F[1] > 5
       \/ F[1] = 5 /\ \E i \in 2..Len(F) : F[i] # 0
       \/ F[1] = 5 /\ I # <<>> /\ I[Len(I)] % 2 = 1

\* m * 2^q with the integer part m rounded; a mantissa that rounds up to
\* 2^53 is 2^52 * 2^(q+1)
ScaledDouble(st) ==
    LET I == IntPart(st.X, st.k)
        m == IF RoundUp(I, FracPart(st.X, st.k)) THEN Inc(I) ELSE I
    IN  IF m = Two53 THEN [m |-> Two52, q |-> st.q + 1] ELSE [m |-> m, q |-> st.q]

\* the double nearest to t * 10^e, for t without leading or trailing zeros;
\* a number below 10^310 and above 10^-324 is in place after 1100 steps
ToDouble(t, e) ==
    ScaledDouble(ScaleSteps([X |-> IF e >= 0 THEN t \o [i \in 1..e |-> 0] ELSE t,
                             k |-> IF e >= 0 THEN 0 ELSE 0 - e,
                             q |-> 0], 1100))

\* ---- the shortest decimal that rounds to the double m * 2^q

\* x * 5^count or x * 2^count
RECURSIVE TimesPower(_, _, _)
TimesPower(x, five, count) ==
    IF x = <<>> \/ count = 0 THEN x
    ELSE IF count = 1 THEN (IF five THEN Times5(x) ELSE Times2(x))
    ELSE TimesPower(TimesPower(x, five, count \div 2), five, count - (count \div 2))


\* In units of 2^(q-2) the double is 4m; the decimals that round to it lie
\* between 4m - 2 and 4m + 2, and from 4m - 1 when m = 2^52 has a
\* predecessor with the exponent q - 1.
\* They are made integers over the common denominator 10^K, K = 2 - q when
\* q < 2 and 0 otherwise.
Interval(m, q) ==
    LET m4    == Times2(Times2(m))
        five  == q < 2
        count == IF q < 2 THEN 2 - q ELSE q - 2
    IN  [lo |-> TimesPower(IF m = Two52 /\ q > -1074 THEN Dec(m4) ELSE Dec(Dec(m4)),
                           five, count),
         x  |-> TimesPower(m4, five, count),
         hi |-> TimesPower(Inc(Inc(m4)), five, count)]

\* lo, x, hi padded to the width w; t is x cut after p digits and u = t + 1.
\* t * 10^(w-p) and u * 10^(w-p) are the decimals of p digits around x.
LowIn(lo, t, p, closed) ==
    \/ LessDigits(SubSeq(lo, 1, p), t)
    \/ closed /\ SubSeq(lo, 1, p) = t /\ \A i \in (p + 1)..Len(lo) : lo[i] = 0

HighIn(hi, u, p, closed) ==
    \/ LessDigits(u, SubSeq(hi, 1, p))
    \/ u = SubSeq(hi, 1, p) /\ (closed \/ \E i \in (p + 1)..Len(hi) : hi[i] # 0)

\* does x lie nearer to u than to t (on a tie: is t odd)
NearerHigh(x, p) ==
    /\ p < Len(x)
    /\ \/ x[p + 1] > 5
       \/ x[p + 1] = 5 /\ \E i \in (p + 2)..Len(x) : x[i] # 0
       \/ x[p + 1] = 5 /\ x[p] % 2 = 1

Digits(lo, x, hi, p, closed) ==
    IF LowIn(lo, SubSeq(x, 1, p), p, closed)
       /\ (~HighIn(hi, IncDigits(SubSeq(x, 1, p)), p, closed) \/ ~NearerHigh(x, p))
    THEN SubSeq(x, 1, p)
    ELSE IncDigits(SubSeq(x, 1, p))

Fits(lo, x, hi, p, closed) ==
    \/ LowIn(lo, SubSeq(x, 1, p), p, closed)
    \/ HighIn(hi, IncDigits(SubSeq(x, 1, p)), p, closed)

\* a double is named by at most 17 digits; hi has one zero in front
ShortestAt(lo, x, hi, closed) ==
    Min({p \in 1..Min({Len(x), 19}) : Fits(lo, x, hi, p, closed)})

\* the shortest decimal in the interval tr around m * 2^q, which is closed
\* when m is even
Shortest(sign, m, q, tr) ==
    LET w      == Len(tr.hi) + 1
        lo     == Pad(tr.lo, w)
        x      == Pad(tr.x, w)
        hi     == Pad(tr.hi, w)
        closed == m[Len(m)] % 2 = 0
        p      == ShortestAt(lo, x, hi, closed)
        s      == StripLeading(Digits(lo, x, hi, p, closed))
    IN  Finite(sign, StripTrailing(s),
               (w - p) - (IF q < 2 THEN 2 - q ELSE 0) + Len(s) - Len(StripTrailing(s)))

\* the number that the double d = m * 2^q is: 2^1024 and above is Infinity
NumberOfDouble(sign, d) ==
    IF d.m = <<>> THEN Zero
    ELSE IF d.q > 971 THEN Infinite(sign)
    ELSE Shortest(sign, d.m, d.q, Interval(d.m, d.q))

\* The number nearest to t * 10^e, t without leading and trailing zeros.
\* Above 10^309 it is Infinity and below 10^-324 zero; a decimal of at most
\* 15 digits in the range of the normal doubles is itself the shortest name
\* of its double.
Nearest(sign, t, e) ==
    IF Len(t) + e > 309 THEN Infinite(sign)
    ELSE IF Len(t) + e < -323 THEN Zero
    ELSE IF Len(t) <= 15 /\ Len(t) + e >= -306 /\ Len(t) + e <= 308 THEN Finite(sign, t, e)
    ELSE NumberOfDouble(sign, ToDouble(t, e))

\* the number nearest to d * 10^e, for any digits d
Decimal(sign, d, e) ==
    IF NonZero(d) = {} THEN Zero
    ELSE Nearest(sign, StripTrailing(StripLeading(d)), e + Len(d) - Max(NonZero(d)))

\* the digits of the numeral s
DigitsOf(s) == [i \in 1..Len(s) |-> DigitVal(s[i])]

\* the value of the exponent digits; beyond six digits every exponent
\* overflows or underflows alike (a numeral has far fewer than 10^6 digits)
RECURSIVE SmallValue(_)
SmallValue(d) == IF d = <<>> THEN 0 ELSE 10 * SmallValue(SubSeq(d, 1, Len(d) - 1)) + d[Len(d)]

ExponentValue(d) == IF Len(d) > 6 THEN 1000000 ELSE SmallValue(d)

\* x + d for a digit d of a radix up to 16: the carry into a place comes from
\* the nearest place after it that overflows, across places that sum to 9
IncBy(x, d) ==
    LET w == Len(x) + 2
        A == Pad(x, w)
        B == Pad(<<d \div 10, d % 10>>, w)
        Carry(i) == \E k \in (i + 1)..w : /\ A[k] + B[k] >= 10
                                          /\ \A m \in (i + 1)..(k - 1) : A[m] + B[m] = 9
    IN  StripLeading(SubSeq([i \in 1..w |->
                                (A[i] + B[i] + (IF Carry(i) THEN 1 ELSE 0)) % 10],
                            1, w))

\* one digit of a numeral of the given radix: x * radix + d[i]
RadixStep(st, d, radix) ==
    [x |-> IncBy(CASE radix = 2  -> Times2(st.x)
                   [] radix = 8  -> Times2(Times2(Times2(st.x)))
                   [] radix = 16 -> Times2(Times2(Times2(Times2(st.x)))),
                 d[st.i]),
     i |-> st.i + 1]

RECURSIVE RadixSteps(_, _, _, _)
RadixSteps(st, d, radix, count) ==
    IF st.i > Len(d) THEN st
    ELSE IF count = 1 THEN RadixStep(st, d, radix)
    ELSE RadixSteps(RadixSteps(st, d, radix, count \div 2), d, radix, count - (count \div 2))

\* the decimal digits of the number with the digits d in the given radix
RadixValue(d, radix) ==
    IF d = <<>> THEN <<>> ELSE RadixSteps([x |-> <<>>, i |-> 1], d, radix, Len(d)).x

\* 0x, 0o and 0b numerals; with more than 1024 digits the number is 2^1024
\* or more
RadixNumber(d, radix) ==
    IF Len(d) > 1024 THEN Infinite(1) ELSE Decimal(1, RadixValue(d, radix), 0)

\* the exponent digits edig with their sign; the mantissa is
\* sign * digits * 10^(-fracLen)
SignedExponent(sign, digits, fracLen, edig, esign) ==
    IF ~AllDigits(edig, 10) THEN NaN
    ELSE Decimal(sign, DigitsOf(digits),
                 esign * ExponentValue(StripLeading(DigitsOf(edig))) - fracLen)

\* r2 is what follows the mantissa: nothing, or an exponent part
ExponentPart(sign, digits, fracLen, r2) ==
    IF digits = <<>> THEN NaN
    ELSE IF r2 = <<>> THEN Decimal(sign, DigitsOf(digits), 0 - fracLen)
    ELSE IF Head(r2) \notin {"e", "E"} \/ Len(r2) = 1 THEN NaN
    ELSE SignedExponent(sign, digits, fracLen,
                        IF r2[2] \in {"+", "-"} THEN From(r2, 3) ELSE From(r2, 2),
                        IF r2[2] = "-" THEN -1 ELSE 1)

\* r holds the fraction digits frac and what follows them
FractionPart(sign, int, r, frac) ==
    ExponentPart(sign, int \o frac, Len(frac), From(r, Len(frac) + 1))

\* r1 is what follows the integer digits int
AfterInteger(sign, int, r1) ==
    IF r1 # <<>> /\ Head(r1) = "."
    THEN FractionPart(sign, int, Tail(r1), TakeDigits(Tail(r1)))
    ELSE FractionPart(sign, int, r1, <<>>)

\* StrUnsignedDecimalLiteral: Infinity | digits [. [digits]] [exp] | . digits [exp]
UnsignedDecimal(s, sign) ==
    IF s = <<"I", "n", "f", "i", "n", "i", "t", "y">> THEN Infinite(sign)
    ELSE AfterInteger(sign, TakeDigits(s), From(s, Len(TakeDigits(s)) + 1))

Radix(c) ==
    IF c \in {"x", "X"} THEN 16
    ELSE IF c \in {"o", "O"} THEN 8
    ELSE IF c \in {"b", "B"} THEN 2 ELSE 0

\* the conversion of a string without white space around it
TrimmedNumber(t) ==
    IF t = <<>> THEN Zero
    ELSE IF Len(t) >= 2 /\ t[1] = "0" /\ Radix(t[2]) # 0
    THEN IF AllDigits(From(t, 3), Radix(t[2]))
         THEN RadixNumber(StripLeading(DigitsOf(From(t, 3))), Radix(t[2])) ELSE NaN
    ELSE UnsignedDecimal(IF Head(t) \in {"+", "-"} THEN Tail(t) ELSE t,
                         IF Head(t) = "-" THEN -1 ELSE 1)

\* Number(str)
NumberOf(str) == TrimmedNumber(Trim(str))

isNaN(num) == num.nan

-----------------------------------------------------------------------------
(* Property values: string | number | boolean                              *)

StrV(s) ==
    [t |-> "string", s |-> s, b |-> FALSE, inf |-> 0, neg |-> FALSE, n |-> <<>>, e |-> 0]

NumV(num) ==
    [t |-> "number", s |-> <<>>, b |-> FALSE,
     inf |-> num.inf, neg |-> num.neg, n |-> num.n, e |-> num.e]

BoolV(b) ==
    [t |-> "boolean", s |-> <<>>, b |-> b, inf |-> 0, neg |-> FALSE, n |-> <<>>, e |-> 0]

\* ToBoolean, as `&&` applies it on line 95 (a NaN never reaches props)
Truthy(v) ==
    CASE v.t = "string"  -> v.s # <<>>
      [] v.t = "number"  -> v.inf # 0 \/ v.n # <<>>
      [] v.t = "boolean" -> v.b

-----------------------------------------------------------------------------
(* The record extractor (lines 61-99)                                      *)

DQ == "\""

SQ == "'"

S_port == <<"p", "o", "r", "t">>

S_name == <<"n", "a", "m", "e">>

S_type == <<"t", "y", "p", "e">>

S_server == <<"s", "e", "r", "v", "e", "r">>

S_true == <<"t", "r", "u", "e">>

S_false == <<"f", "a", "l", "s", "e">>

S_header == <<"p", "r", "o", "x", "i", "e", "s", ":">>

\* trimmedLine.match(/^- \{\s*([^}]+)\s*\}$/), line 61.  Between "- {" and the
\* final "}" there must be at least one character and no "}".  The greedy
\* \s* takes the leading white space, except that it gives one character back
\* when nothing else is left for [^}]+; the greedy [^}]+ takes the rest,
\* trailing white space included.
NodeMatch(trimmedLine) ==
    LET inner == SubSeq(trimmedLine, 4, Len(trimmedLine) - 1)
        ok    == /\ StartsWith(trimmedLine, <<"-", " ", "{">>)
                 /\ Len(trimmedLine) >= 5
                 /\ trimmedLine[Len(trimmedLine)] = "}"
                 /\ \A i \in 1..Len(inner) : inner[i] # "}"
        body  == IF TrimStart(inner) = <<>> THEN <<inner[Len(inner)]>>
                 ELSE TrimStart(inner)
    IN  [matched |-> ok, group1 |-> IF ok THEN body ELSE <<>>]

\* the rest of r after a greedy [^...]* over the characters not in `stop`
SkipNot(r, stop) ==
    LET at == {i \in 1..Len(r) : r[i] \in stop}
    IN  IF at = {} THEN <<>> ELSE SubSeq(r, Min(at), Len(r))

RECURSIVE Lookahead(_)
\* The lookahead of the split pattern on line 70, applied to the rest r of
\* the string:  (?:[^"']*(?:"[^"']*")[^"']*|[^"']*(?:'[^']*')[^"']*)*[^"']*$
\* After [^"']* the rest is empty (the pattern ends), or begins with a double
\* quote (first alternative: "[^"']*" must follow) or with a single quote
\* (second alternative: '[^']*' must follow).
Lookahead(r) ==
    LET r1 == SkipNot(r, {DQ, SQ})
    IN  IF r1 = <<>> THEN TRUE
        ELSE IF Head(r1) = DQ
        THEN LET r2 == SkipNot(Tail(r1), {DQ, SQ})
             IN  r2 # <<>> /\ Head(r2) = DQ /\ Lookahead(Tail(r2))
        ELSE LET r2 == SkipNot(Tail(r1), {SQ})
             IN  r2 # <<>> /\ Lookahead(Tail(r2))

\* the index of the first character after the white space that starts at i
SkipSpace(s, i) ==
    LET at == {j \in i..Len(s) : ~IsSpace(s[j])}
    IN  IF at = {} THEN Len(s) + 1 ELSE Min(at)

\* the 1-based positions of the commas at which the pattern /,\s*(?=...)/
\* matches (the lookahead accepts the same rests with less white space taken)
SplitPoints(s) == {q \in 1..Len(s) : s[q] = "," /\ Lookahead(From(s, SkipSpace(s, q + 1)))}

\* propertiesString.split(/,\s*(?=...)/), line 70: p is the start of the
\* current piece; the pattern matches next at the first split point from p
\* on, and the match takes the comma and the white space after it.
RECURSIVE SplitFrom(_, _, _)
SplitFrom(s, points, p) ==
    LET next == {q \in points : q >= p}
    IN  IF next = {} THEN <<SubSeq(s, p, Len(s))>>
        ELSE <<SubSeq(s, p, Min(next) - 1)>>
             \o SplitFrom(s, points, SkipSpace(s, Min(next) + 1))

SplitPairs(s) == SplitFrom(s, SplitPoints(s), 1)

\* pair.split(':', 2), line 73
Parts(pair) == SplitLimit(pair, ":", 2)

\* lines 79-81
StripQuotes(value) ==
    IF \/ (StartsWith(value, <<DQ>>) /\ EndsWith(value, <<DQ>>))
       \/ (StartsWith(value, <<SQ>>) /\ EndsWith(value, <<SQ>>))
    THEN Substring(value, 1, Len(value) - 1)
    ELSE value

\* lines 86-90
CoerceLiteral(value) ==
    IF value = S_true THEN BoolV(TRUE)
    ELSE IF value = S_false THEN BoolV(FALSE)
    ELSE StrV(value)

\* lines 84-85, with num = Number(value)
CoerceNumber(key, value, num) ==
    IF key = S_port /\ ~isNaN(num) THEN NumV(num) ELSE CoerceLiteral(value)

\* lines 84-90, on the quote-stripped value
Coerce(key, value) == CoerceNumber(key, value, NumberOf(value))

S_proto == <<"_", "_", "p", "r", "o", "t", "o", "_", "_">>

\* props[key] = value, line 91.  props is an object literal (line 65): the
\* key __proto__ is the accessor of Object.prototype, whose setter ignores a
\* string, number or boolean, so that no property is stored.
SetProp(p, key, value) ==
    IF key = S_proto THEN p
    ELSE [k \in DOMAIN p \cup {key} |-> IF k = key THEN value ELSE p[k]]

NoProps == [k \in {} |-> StrV(<<>>)]

\* lines 75-91, with key and value trimmed
StoreKeyValue(p, key, value) == SetProp(p, key, Coerce(key, StripQuotes(value)))

\* lines 74-92
StoreParts(p, parts) ==
    IF Len(parts) = 2 THEN StoreKeyValue(p, Trim(parts[1]), Trim(parts[2])) ELSE p

\* one iteration of `for (const pair of pairs)`, lines 72-93
PairStep(p, pair) == StoreParts(p, Parts(pair))

RECURSIVE PairLoop(_, _)
PairLoop(p, ps) == IF ps = <<>> THEN p ELSE PairLoop(PairStep(p, Head(ps)), Tail(ps))

\* lines 64-93: the props of a record body
ExtractProps(body) == PairLoop(NoProps, SplitPairs(body))

\* line 95: props.name && props.type && props.server && props.port !== undefined
Get(p, key) == p[key]

Has(p, key) == key \in DOMAIN p

Complete(p) ==
    /\ Has(p, S_name) /\ Truthy(Get(p, S_name))
    /\ Has(p, S_type) /\ Truthy(Get(p, S_type))
    /\ Has(p, S_server) /\ Truthy(Get(p, S_server))
    /\ Has(p, S_port)

-----------------------------------------------------------------------------
(* The section scanner (lines 40-58)                                       *)

\* IsHeader with `===` in place of startsWith
IsHeaderExact(trimmedLine) == trimmedLine = S_header

\* line 44: trimmedLine.startsWith('proxies:')
IsHeader(trimmedLine) == StartsWith(trimmedLine, S_header)

\* lines 53-54; the last test is made on the trimmed line
LeavesSection(trimmedLine) ==
    /\ ~StartsWith(trimmedLine, <<"-">>)
    /\ trimmedLine # <<>>
    /\ ~StartsWith(trimmedLine, <<"#">>)
    /\ Includes(trimmedLine, <<":">>)
    /\ ~StartsWith(trimmedLine, <<" ">>)

\* SectionAfter without the assignment of line 55
SectionAfterNoReset(inSection, trimmedLine) ==
    IF IsHeader(trimmedLine) THEN TRUE ELSE inSection

\* the value of inProxiesSection after one line (lines 44-58)
SectionAfter(inSection, trimmedLine) ==
    IF IsHeader(trimmedLine) THEN TRUE
    ELSE IF inSection /\ LeavesSection(trimmedLine) THEN FALSE
    ELSE inSection

\* lines 95-99, for the props p of a matched line
ValidateBranch(p) ==
    IF Complete(p) THEN [branch |-> "push", props |-> p]
    ELSE [branch |-> "warn", props |-> p]

\* lines 61-100
MatchBranch(nodeMatch) ==
    IF nodeMatch.matched /\ nodeMatch.group1 # <<>>
    THEN ValidateBranch(ExtractProps(nodeMatch.group1))
    ELSE [branch |-> "nomatch", props |-> NoProps]

\* the branch one iteration of the loop takes on a line, and the props it
\* extracts (lines 44-100)
LineBranch(inSection, trimmedLine) ==
    IF IsHeader(trimmedLine) THEN [branch |-> "header", props |-> NoProps]
    ELSE IF ~inSection THEN [branch |-> "outside", props |-> NoProps]
    ELSE IF LeavesSection(trimmedLine) THEN [branch |-> "exit", props |-> NoProps]
    ELSE MatchBranch(NodeMatch(trimmedLine))

\* lines 41-101: one iteration of the loop
Step(inSection, trimmedLine, taken) ==
    [branch |-> taken.branch,
     props  |-> taken.props,
     now    |-> SectionAfter(inSection, trimmedLine)]

Trimmed(inSection, trimmedLine) ==
    Step(inSection, trimmedLine, LineBranch(inSection, trimmedLine))

Iterate(inSection, line) == Trimmed(inSection, Trim(line))

\* the loop run to its end over the lines ls
NodesAfter(st, step) ==
    [inSection |-> step.now,
     nodes |-> IF step.branch = "push" THEN Append(st.nodes, step.props) ELSE st.nodes]

RECURSIVE ScanLoop(_, _)
ScanLoop(st, ls) ==
    IF ls = <<>> THEN st.nodes
    ELSE ScanLoop(NodesAfter(st, Iterate(st.inSection, Head(ls))), Tail(ls))

\* lines 35-104
parseClashNodes(configContent) ==
    ScanLoop([inSection |-> FALSE, nodes |-> <<>>], SplitChar(configContent, "\n"))

-----------------------------------------------------------------------------
(* Input lines of the scanner                                              *)

MaxLines == 4

\* proxies:
L_header ==
    <<"p", "r", "o", "x", "i", "e", "s", ":">>

\* proxies: []
L_headerEmpty ==
    <<"p", "r", "o", "x", "i", "e", "s", ":", " ", "[", "]">>

\* proxy-groups:
L_topKey ==
    <<"p", "r", "o", "x", "y", "-", "g", "r", "o", "u", "p", "s", ":">>

\*   - { name: "A", type: ss, server: 1.2.3.4, port: 443, cipher: aes-256-gcm }
L_nodeA ==
    <<" ", " ", "-", " ", "{", " ", "n", "a", "m", "e", ":", " ", DQ, "A", DQ, ",", " ",
      "t", "y", "p", "e", ":", " ", "s", "s", ",", " ", "s", "e", "r", "v", "e", "r", ":",
      " ", "1", ".", "2", ".", "3", ".", "4", ",", " ", "p", "o", "r", "t", ":", " ", "4",
      "4", "3", ",", " ", "c", "i", "p", "h", "e", "r", ":", " ", "a", "e", "s", "-", "2",
      "5", "6", "-", "g", "c", "m", " ", "}">>

\*   - { name: "B", type: vmess, server: b.example.com, port: "8443", tls: true }
L_nodeB ==
    <<" ", " ", "-", " ", "{", " ", "n", "a", "m", "e", ":", " ", DQ, "B", DQ, ",", " ",
      "t", "y", "p", "e", ":", " ", "v", "m", "e", "s", "s", ",", " ", "s", "e", "r", "v",
      "e", "r", ":", " ", "b", ".", "e", "x", "a", "m", "p", "l", "e", ".", "c", "o", "m",
      ",", " ", "p", "o", "r", "t", ":", " ", DQ, "8", "4", "4", "3", DQ, ",", " ", "t",
      "l", "s", ":", " ", "t", "r", "u", "e", " ", "}">>

\*   - { name: "Auto", type: select }
L_auto ==
    <<" ", " ", "-", " ", "{", " ", "n", "a", "m", "e", ":", " ", DQ, "A", "u", "t", "o",
      DQ, ",", " ", "t", "y", "p", "e", ":", " ", "s", "e", "l", "e", "c", "t", " ", "}">>

\* - { name: D, type: ss, server: h, port: 0 }
L_zeroPort ==
    <<"-", " ", "{", " ", "n", "a", "m", "e", ":", " ", "D", ",", " ", "t", "y", "p", "e",
      ":", " ", "s", "s", ",", " ", "s", "e", "r", "v", "e", "r", ":", " ", "h", ",", " ",
      "p", "o", "r", "t", ":", " ", "0", " ", "}">>

LineInputs ==
    {L_header,
     L_headerEmpty,
     L_topKey,
     L_nodeA,
     L_nodeB,
     L_auto,
     L_zeroPort,
     \*     name: x
     <<" ", " ", " ", " ", "n", "a", "m", "e", ":", " ", "x">>,
     \* # c: d
     <<"#", " ", "c", ":", " ", "d">>,
     \* (the empty line)
     <<>>,
     \* - { name: C, type: ss, server: h, port: "" }
     <<"-", " ", "{", " ", "n", "a", "m", "e", ":", " ", "C", ",", " ", "t", "y", "p", "e",
       ":", " ", "s", "s", ",", " ", "s", "e", "r", "v", "e", "r", ":", " ", "h", ",", " ",
       "p", "o", "r", "t", ":", " ", DQ, DQ, " ", "}">>,
     \* - { name: E, type: ss, server: fe80::1, port: 1 }
     <<"-", " ", "{", " ", "n", "a", "m", "e", ":", " ", "E", ",", " ", "t", "y", "p", "e",
       ":", " ", "s", "s", ",", " ", "s", "e", "r", "v", "e", "r", ":", " ", "f", "e", "8",
       "0", ":", ":", "1", ",", " ", "p", "o", "r", "t", ":", " ", "1", " ", "}">>,
     \* - { name: true, type: ss, server: h, port: "true" }
     <<"-", " ", "{", " ", "n", "a", "m", "e", ":", " ", "t", "r", "u", "e", ",", " ", "t",
       "y", "p", "e", ":", " ", "s", "s", ",", " ", "s", "e", "r", "v", "e", "r", ":", " ",
       "h", ",", " ", "p", "o", "r", "t", ":", " ", DQ, "t", "r", "u", "e", DQ, " ", "}">>,
     \* - { name: "a, b", type: x, server: y, port: 1 }
     <<"-", " ", "{", " ", "n", "a", "m", "e", ":", " ", DQ, "a", ",", " ", "b", DQ, ",",
       " ", "t", "y", "p", "e", ":", " ", "x", ",", " ", "s", "e", "r", "v", "e", "r", ":",
       " ", "y", ",", " ", "p", "o", "r", "t", ":", " ", "1", " ", "}">>,
     \* - { name: F, type: x, server: y, port: 1, note: "it's" }
     <<"-", " ", "{", " ", "n", "a", "m", "e", ":", " ", "F", ",", " ", "t", "y", "p", "e",
       ":", " ", "x", ",", " ", "s", "e", "r", "v", "e", "r", ":", " ", "y", ",", " ", "p",
       "o", "r", "t", ":", " ", "1", ",", " ", "n", "o", "t", "e", ":", " ", DQ, "i", "t",
       SQ, "s", DQ, " ", "}">>}

-----------------------------------------------------------------------------
(* parseClashNodes as a state machine: one step per line of the document   *)

ScanInit ==
    /\ lines = <<>>
    /\ inProxiesSection = FALSE
    /\ nodes = <<>>
    /\ nodeLine = <<>>
    /\ sectionLog = <<>>
    /\ warnings = 0
    /\ scanPc = "loop"

ScanOff ==
    /\ lines = <<>>
    /\ inProxiesSection = FALSE
    /\ nodes = <<>>
    /\ nodeLine = <<>>
    /\ sectionLog = <<>>
    /\ warnings = 0
    /\ scanPc = "off"

\* one iteration of the loop on each input line, from either value of
\* inProxiesSection (computed once)
Iteration ==
    [line \in LineInputs |-> [inSection \in BOOLEAN |-> Iterate(inSection, line)]]

\* what every iteration does: the line is consumed, the flag is updated
Consumed(line, step) ==
    /\ scanPc = "loop"
    /\ Len(lines) < MaxLines
    /\ lines' = Append(lines, line)
    /\ inProxiesSection' = step.now
    /\ sectionLog' = Append(sectionLog,
                            [was |-> inProxiesSection, now |-> step.now,
                             branch |-> step.branch])
    /\ nodes' = IF step.branch = "push" THEN Append(nodes, step.props) ELSE nodes
    /\ nodeLine' = IF step.branch = "push" THEN Append(nodeLine, Len(lines) + 1)
                   ELSE nodeLine
    /\ warnings' = IF step.branch = "warn" THEN warnings + 1 ELSE warnings
    /\ scanPc' = "loop"
    /\ UNCHANGED <<recVars, appVars>>

Takes(line, branch) == Iteration[line][inProxiesSection].branch = branch

Consume(line) == Consumed(line, Iteration[line][inProxiesSection])

\* lines 44-47
EnterSection ==
    \E line \in LineInputs : Takes(line, "header") /\ Consume(line)

\* line 49 false: the line is ignored
OutsideLine ==
    \E line \in LineInputs : Takes(line, "outside") /\ Consume(line)

\* lines 53-58
ExitSection ==
    \E line \in LineInputs : Takes(line, "exit") /\ Consume(line)

\* line 63 false
NoMatchLine ==
    \E line \in LineInputs : Takes(line, "nomatch") /\ Consume(line)

\* lines 63-96
PushNode ==
    \E line \in LineInputs : Takes(line, "push") /\ Consume(line)

\* lines 63-98
WarnIncomplete ==
    \E line \in LineInputs : Takes(line, "warn") /\ Consume(line)

\* line 103: the document has no more lines
ReturnNodes ==
    /\ scanPc = "loop"
    /\ scanPc' = "returned"
    /\ UNCHANGED <<lines, inProxiesSection, nodes, nodeLine, sectionLog, warnings,
                   recVars, appVars>>

ScanNext ==
    \/ EnterSection
    \/ OutsideLine
    \/ ExitSection
    \/ NoMatchLine
    \/ PushNode
    \/ WarnIncomplete
    \/ ReturnNodes

-----------------------------------------------------------------------------
(* The record extractor as a state machine: lines 64-99 on one record body *)

MaxBodyLen == 4

BodyAlphabet == {"a", ",", ":", DQ, SQ, " "}

\* the bodies line 61 can capture from a line "- {" body "}"
Captured(bodies) ==
    {b \in bodies : /\ NodeMatch(<<"-", " ", "{">> \o b \o <<"}">>).matched
                    /\ NodeMatch(<<"-", " ", "{">> \o b \o <<"}">>).group1 = b}

CharBodies == Captured(UNION {[1..k -> BodyAlphabet] : k \in 1..MaxBodyLen})

\* values as written in a record body
RawValues ==
    {<<"8", "4", "4", "3">>,
     <<DQ, "8", "4", "4", "3", DQ>>,
     <<SQ, "8", "4", "4", "3", SQ>>,
     <<"0">>,
     <<>>,
     <<DQ, DQ>>,
     <<SQ, SQ>>,
     <<"t", "r", "u", "e">>,
     <<DQ, "t", "r", "u", "e", DQ>>,
     <<"f", "a", "l", "s", "e">>,
     <<"I", "n", "f", "i", "n", "i", "t", "y">>,
     <<"-", "I", "n", "f", "i", "n", "i", "t", "y">>,
     <<"1", "e", "3">>,
     <<"0", "x", "1", "F">>,
     <<"1", ".", "5">>,
     <<"1", "2", "a", "b">>,
     <<"a", "b", "c">>,
     <<DQ>>,
     <<SQ, "i", "t", DQ, "s", SQ>>,
     <<"a", ":", "b">>}

S_tls == <<"t", "l", "s">>

\* key: value
OnePair(key, raw) == key \o <<":", " ">> \o raw

\* name: n, type: t, server: s, port: <raw>
FullRecord(raw) ==
    <<"n", "a", "m", "e", ":", " ", "n", ",", " ", "t", "y", "p", "e", ":", " ", "t", ",",
      " ", "s", "e", "r", "v", "e", "r", ":", " ", "s", ",", " ">> \o OnePair(S_port, raw)

WordBodies ==
    Captured({OnePair(key, raw) : key \in {S_port, S_name, S_tls}, raw \in RawValues}
             \cup {FullRecord(raw) : raw \in RawValues})

BodyInputs == CharBodies \cup WordBodies

RecInit ==
    /\ propertiesString \in BodyInputs
    /\ pairs = <<>>
    /\ pairIdx = 0
    /\ props = NoProps
    /\ recPc = "split"

RecOff ==
    /\ propertiesString = <<>>
    /\ pairs = <<>>
    /\ pairIdx = 0
    /\ props = NoProps
    /\ recPc = "off"

\* line 70
SplitBody ==
    /\ recPc = "split"
    /\ pairs' = SplitPairs(propertiesString)
    /\ pairIdx' = 1
    /\ recPc' = "pairs"
    /\ UNCHANGED <<propertiesString, props, scanVars, appVars>>

\* lines 73-74 with parts.length # 2: the segment is dropped
DropPair ==
    /\ recPc = "pairs"
    /\ pairIdx <= Len(pairs)
    /\ Len(Parts(pairs[pairIdx])) # 2
    /\ pairIdx' = pairIdx + 1
    /\ UNCHANGED <<propertiesString, pairs, props, recPc, scanVars, appVars>>

\* lines 73-91
StorePair ==
    /\ recPc = "pairs"
    /\ pairIdx <= Len(pairs)
    /\ Len(Parts(pairs[pairIdx])) = 2
    /\ props' = PairStep(props, pairs[pairIdx])
    /\ pairIdx' = pairIdx + 1
    /\ UNCHANGED <<propertiesString, pairs, recPc, scanVars, appVars>>

\* lines 95-96
AcceptRecord ==
    /\ recPc = "pairs"
    /\ pairIdx > Len(pairs)
    /\ Complete(props)
    /\ recPc' = "pushed"
    /\ UNCHANGED <<propertiesString, pairs, pairIdx, props, scanVars, appVars>>

\* lines 97-98
RejectRecord ==
    /\ recPc = "pairs"
    /\ pairIdx > Len(pairs)
    /\ ~Complete(props)
    /\ recPc' = "skipped"
    /\ UNCHANGED <<propertiesString, pairs, pairIdx, props, scanVars, appVars>>

RecNext ==
    \/ SplitBody
    \/ DropPair
    \/ StorePair
    \/ AcceptRecord
    \/ RejectRecord

-----------------------------------------------------------------------------
(* fetchClashConfig (lines 10-19) and the App component (lines 111-177)    *)

MaxCalls == 3

S_http ==
    <<"h", "t", "t", "p", ":", "/", "/">>

S_https ==
    <<"h", "t", "t", "p", "s", ":", "/", "/">>

\* the input field: empty, blank, ftp://c, http://a, https://b
UrlInputs ==
    {<<>>,
     <<" ">>,
     <<"f", "t", "p", ":", "/", "/", "c">>,
     <<"h", "t", "t", "p", ":", "/", "/", "a">>,
     <<"h", "t", "t", "p", "s", ":", "/", "/", "b">>}

\* error === null
Null == "null"

MsgEnterUrl == "Please enter a valid URL."

MsgInvalidUrl == "Invalid URL. Must start with http:// or https://"

\* line 16
MsgHttp(status, statusText) ==
    "HTTP error! Status: " \o ToString(status) \o " - " \o statusText

\* line 143
MsgUnknown == "An unknown error occurred while fetching or parsing. Please try again."

MsgNoNodes == "No Clash nodes found or unable to parse from the provided URL. Please check the URL and content format."

\* line 11
ValidUrl(u) == StartsWith(u, S_http) \/ StartsWith(u, S_https)

\* what fetchClashConfig may meet: a response that is ok with its text, a
\* response that is not ok with its status and statusText, or a rejection of
\* fetch or of response.text() with the message of the error (empty when the
\* error has no message)
ResponseInputs ==
    {[kind |-> "ok", text |-> Join(<<L_header, L_nodeA, L_nodeB, L_topKey, L_auto>>, "\n")],
     [kind |-> "ok", text |-> Join(<<L_header, L_zeroPort>>, "\n")],
     [kind |-> "ok", text |-> Join(<<L_topKey, L_auto>>, "\n")],
     [kind |-> "status", status |-> 404, statusText |-> "Not Found"],
     [kind |-> "status", status |-> 500, statusText |-> ""],
     [kind |-> "reject", message |-> "Failed to fetch"],
     [kind |-> "reject", message |-> ""]}

\* lines 132-146: what the continuation of one invocation sets from a
\* response: nodes (or "keep" when setNodes is not called) and error (or
\* "keep" when setError is not called)
Parsed(parsedNodes) ==
    [setNodes |-> TRUE, nodes |-> parsedNodes,
     setError |-> parsedNodes = <<>>, error |-> MsgNoNodes]

Settled(resp) ==
    IF resp.kind = "ok" THEN Parsed(parseClashNodes(resp.text))
    ELSE [setNodes |-> FALSE, nodes |-> <<>>,
          setError |-> TRUE,
          error |-> IF resp.kind = "status" THEN MsgHttp(resp.status, resp.statusText)
                    ELSE IF resp.message # "" THEN resp.message
                    ELSE MsgUnknown]

\* Settled on each response (computed once)
Response == [resp \in ResponseInputs |-> Settled(resp)]

AppInit ==
    /\ url = <<>>
    /\ stateNodes = <<>>
    /\ loading = FALSE
    /\ error = Null
    /\ calls = {}
    /\ jobs = {}
    /\ started = 0
    /\ outcome = [done |-> TRUE, nodes |-> <<>>, error |-> Null]

\* An event handler or the continuation of a settled fetch starts only when
\* the promise jobs queued by the handler before it have run.
Idle == jobs = {}

\* line 170: onChange
SetUrl ==
    \E u \in UrlInputs :
        /\ Idle
        /\ u # url
        /\ url' = u
        /\ UNCHANGED <<stateNodes, loading, error, calls, jobs, started, outcome,
                       scanVars, recVars>>

\* lines 121-133, from the call of the handler to its return.  A blank url
\* returns at line 129.  Otherwise the handler returns at the await of line
\* 133 with error null and loading true: on a url that line 11 refuses the
\* promise of fetchClashConfig is already rejected and the catch block is a
\* queued promise job; on another url the invocation waits for its fetch.
handleFetchNodes ==
    /\ Idle
    /\ started < MaxCalls
    /\ started' = started + 1
    /\ stateNodes' = <<>>
    /\ IF Trim(url) = <<>>
       THEN /\ error' = MsgEnterUrl
            /\ loading' = FALSE
            /\ calls' = calls
            /\ jobs' = jobs
            /\ outcome' = [done |-> TRUE, nodes |-> <<>>, error |-> MsgEnterUrl]
       ELSE /\ error' = Null
            /\ loading' = TRUE
            /\ calls' = IF ValidUrl(url) THEN calls \cup {started + 1} ELSE calls
            /\ jobs' = IF ValidUrl(url) THEN jobs ELSE jobs \cup {started + 1}
            /\ outcome' = [done |-> FALSE, nodes |-> <<>>, error |-> Null]
    /\ UNCHANGED <<url, scanVars, recVars>>

\* line 171: onKeyDown with Enter calls handleFetchNodes whatever `loading` is
PressEnter == handleFetchNodes

\* lines 175-177: the button is disabled while loading or with an empty url
ClickFetch ==
    /\ ~(loading \/ Trim(url) = <<>>)
    /\ handleFetchNodes

\* lines 134-146: the continuation of invocation c after the await
Continue(c, r) ==
    /\ stateNodes' = IF r.setNodes THEN r.nodes ELSE stateNodes
    /\ error' = IF r.setError THEN r.error ELSE error
    /\ loading' = FALSE
    /\ outcome' = IF c = started
                  THEN [done |-> TRUE, nodes |-> r.nodes,
                        error |-> IF r.setError THEN r.error ELSE Null]
                  ELSE outcome
    /\ UNCHANGED <<url, started, scanVars, recVars>>

\* lines 12 and 140-146: the promise job of an invocation on a refused url
CatchInvalidUrl ==
    \E c \in jobs :
        /\ jobs' = jobs \ {c}
        /\ calls' = calls
        /\ Continue(c, Settled([kind |-> "reject", message |-> MsgInvalidUrl]))

\* lines 14-18 and 134-146: the fetch of invocation c settles and its
\* continuation runs
FetchSettles ==
    \E c \in calls, resp \in ResponseInputs :
        /\ Idle
        /\ calls' = calls \ {c}
        /\ jobs' = jobs
        /\ Continue(c, Response[resp])

AppNext ==
    \/ SetUrl
    \/ PressEnter
    \/ ClickFetch
    \/ CatchInvalidUrl
    \/ FetchSettles

-----------------------------------------------------------------------------
(* Specifications                                                          *)

\* parseClashNodes, line by line
Init == ScanInit /\ RecOff /\ AppInit

Next == ScanNext

Spec == Init /\ [][Next]_vars

\* the record extractor on one body
RecordInit == ScanOff /\ RecInit /\ AppInit

RecordSpec == RecordInit /\ [][RecNext]_vars

\* the App component
AppSpecInit == ScanOff /\ RecOff /\ AppInit

AppSpec == AppSpecInit /\ [][AppNext]_vars

-----------------------------------------------------------------------------
(* What the specification says of the scanner and the extractor            *)

Quotes == {DQ, SQ}

\* The left-to-right quote scanner of the specification, from position i
\* outside any quoted span: the commas up to the next quote character are
\* split points; that quote opens a span closed by the next quote character
\* of the same kind, and a span never closed runs to the end of the body.
RECURSIVE ScannerPointsFrom(_, _)
ScannerPointsFrom(body, i) ==
    LET opens  == {q \in i..Len(body) : body[q] \in Quotes}
        open   == Min(opens)
        closes == {q \in (open + 1)..Len(body) : body[q] = body[open]}
    IN  IF opens = {} THEN {q \in i..Len(body) : body[q] = ","}
        ELSE {q \in i..(open - 1) : body[q] = ","}
             \cup (IF closes = {} THEN {} ELSE ScannerPointsFrom(body, Min(closes) + 1))

ScannerPoints(body) == ScannerPointsFrom(body, 1)

\* the segments between the split points, each trimmed
RECURSIVE SegmentsAt(_, _, _)
SegmentsAt(body, points, p) ==
    LET next == {q \in points : q >= p}
    IN  IF next = {} THEN <<Trim(SubSeq(body, p, Len(body)))>>
        ELSE <<Trim(SubSeq(body, p, Min(next) - 1))>>
             \o SegmentsAt(body, points, Min(next) + 1)

TrimAll(ps) == [i \in 1..Len(ps) |-> Trim(ps[i])]

HasColon(seg) == \E i \in 1..Len(seg) : seg[i] = ":"

FirstColon(seg) == Min({i \in 1..Len(seg) : seg[i] = ":"})

KeyOf(seg) == Trim(SubSeq(seg, 1, FirstColon(seg) - 1))

ValueOf(seg) == Trim(SubSeq(seg, FirstColon(seg) + 1, Len(seg)))

IsFinite(num) == ~num.nan /\ num.inf = 0

\* the rule chain of the specification
ChainCoerce(key, value) ==
    IF key = S_port /\ IsFinite(NumberOf(value)) THEN NumV(NumberOf(value))
    ELSE IF value = S_true THEN BoolV(TRUE)
    ELSE IF value = S_false THEN BoolV(FALSE)
    ELSE StrV(value)

\* the pair the extractor has just stored or dropped
LastPair == pairs[pairIdx - 1]

PairDone == recPc = "pairs" /\ pairIdx > 1

\* the props of a body as the specification extracts them
RECURSIVE SpecPairLoop(_, _)
SpecPairLoop(p, segs) ==
    IF segs = <<>> THEN p
    ELSE SpecPairLoop(IF HasColon(Head(segs))
                      THEN SetProp(p, KeyOf(Head(segs)),
                                   ChainCoerce(KeyOf(Head(segs)), StripQuotes(ValueOf(Head(segs)))))
                      ELSE p,
                      Tail(segs))

SpecProps(body) == SpecPairLoop(NoProps, SegmentsAt(body, ScannerPoints(body), 1))

NonEmptyField(p, key) == key \in DOMAIN p /\ p[key] # StrV(<<>>) /\ Truthy(p[key])

SpecComplete(p) ==
    /\ NonEmptyField(p, S_name)
    /\ NonEmptyField(p, S_type)
    /\ NonEmptyField(p, S_server)
    /\ S_port \in DOMAIN p /\ p[S_port] # StrV(<<>>)

\* line i was scanned inside the section and has the record shape
RecordLine(i) ==
    /\ sectionLog[i].was
    /\ sectionLog[i].branch \notin {"header", "exit"}
    /\ NodeMatch(Trim(lines[i])).matched

RECURSIVE ExpectedFrom(_)
\* the records, with their lines, that lines i.. must produce
ExpectedFrom(i) ==
    IF i > Len(lines) THEN <<>>
    ELSE IF RecordLine(i) /\ SpecComplete(SpecProps(NodeMatch(Trim(lines[i])).group1))
    THEN <<[line |-> i, props |-> SpecProps(NodeMatch(Trim(lines[i])).group1)]>>
         \o ExpectedFrom(i + 1)
    ELSE ExpectedFrom(i + 1)

Produced == [k \in 1..Len(nodes) |-> [line |-> nodeLine[k], props |-> nodes[k]]]

Scanned == 1..Len(lines)

\* the input lines whose trimmed text starts with 'proxies:'
PrefixedLines == {l \in LineInputs : StartsWith(Trim(l), S_header)}

\* the input lines whose trimmed text is exactly 'proxies:'
ExactHeaderLines == {l \in LineInputs : Trim(l) = S_header}

-----------------------------------------------------------------------------
(* Claims                                                                  *)

\* C1: inside the section a line causes an exit only if its trimmed form is
\* non-empty, starts with neither '#' nor '-', contains a colon, and the
\* original line has no leading white space.
C1_ExitOnlyUnindented ==
    \A i \in Scanned :
        sectionLog[i].branch = "exit" =>
            /\ Trim(lines[i]) # <<>>
            /\ ~StartsWith(Trim(lines[i]), <<"#">>)
            /\ ~StartsWith(Trim(lines[i]), <<"-">>)
            /\ Includes(Trim(lines[i]), <<":">>)
            /\ ~IsSpace(Head(lines[i]))

\* C2: the key of a segment is the trimmed text before its first colon and
\* the value the whole trimmed text after it, later colons included.
C2_ValueKeepsLaterColons ==
    (PairDone /\ HasColon(LastPair)) =>
        /\ KeyOf(LastPair) \in DOMAIN props
        /\ props[KeyOf(LastPair)]
             = Coerce(KeyOf(LastPair), StripQuotes(ValueOf(LastPair)))

\* C3: the pair split agrees with the left-to-right quote scanner: a comma is
\* a split point exactly when it is met outside any open quoted span.
C3_SplitAgreesWithScanner ==
    recPc \notin {"off", "split"} =>
        TrimAll(pairs) = SegmentsAt(propertiesString, ScannerPoints(propertiesString), 1)

\* C4: the scanner enters the section only on a line whose trimmed text is
\* exactly 'proxies:', the header test is made only outside the section, and
\* the header line is never emitted as a record.
C4_EnterOnlyOnExactHeader ==
    \A i \in Scanned :
        /\ (~sectionLog[i].was /\ sectionLog[i].now) => lines[i] \in ExactHeaderLines
        /\ sectionLog[i].branch = "header" => ~sectionLog[i].was
        /\ lines[i] \in ExactHeaderLines => \A k \in 1..Len(nodes) : nodeLine[k] # i

\* C4 as amended: the scanner enters the section on exactly the lines whose
\* trimmed text starts with 'proxies:'; such a line leaves the scanner inside
\* from either state, and is never emitted as a record.
C4_EnterOnHeaderPrefix ==
    \A i \in Scanned :
        /\ (~sectionLog[i].was /\ sectionLog[i].now) => lines[i] \in PrefixedLines
        /\ lines[i] \in PrefixedLines =>
              /\ sectionLog[i].now
              /\ sectionLog[i].branch = "header"
              /\ \A k \in 1..Len(nodes) : nodeLine[k] # i

\* C4: 'proxies: []' was read outside the section and the scanner is inside
C4_Witness ==
    \E i \in Scanned :
        lines[i] = L_headerEmpty /\ ~sectionLog[i].was /\ sectionLog[i].now

\* C5: every returned record has name, type and server as non-empty strings
\* and port as a number or a string.
C5_RequiredFieldsTyped ==
    \A k \in 1..Len(nodes) :
        /\ \A key \in {S_name, S_type, S_server} :
              /\ key \in DOMAIN nodes[k]
              /\ nodes[k][key].t = "string"
              /\ nodes[k][key].s # <<>>
        /\ S_port \in DOMAIN nodes[k]
        /\ nodes[k][S_port].t \in {"number", "string"}

\* C6: a record whose port value is the empty string, bare or as empty
\* quotes, is rejected, and a record whose port is zero is accepted (name,
\* type and server being non-empty).
C6_EmptyPortRejected ==
    recPc \in {"pushed", "skipped"} =>
        /\ propertiesString \in {FullRecord(<<>>), FullRecord(<<DQ, DQ>>), FullRecord(<<SQ, SQ>>)}
              => recPc = "skipped"
        /\ propertiesString = FullRecord(<<"0">>) => recPc = "pushed"

\* C7: the result is, in document order, exactly one record per line scanned
\* inside the section that has the record shape and all four required fields
\* non-empty, with the field values of the line.
C7_ExactlyTheCompleteRecords == Produced = ExpectedFrom(1)

\* C8: once the scanner has left the section, no later line contributes a
\* record.
C8_NoRecordAfterExit ==
    \A k \in 1..Len(nodes) :
        \A i \in 1..(nodeLine[k] - 1) : sectionLog[i].branch # "exit"

\* C8 as amended: once the scanner has left the section, no later line
\* contributes a record unless a line whose trimmed text starts with
\* 'proxies:' has been read in between.
C8_NoRecordUntilReentry ==
    \A k \in 1..Len(nodes) :
        \A i \in 1..(nodeLine[k] - 1) :
            sectionLog[i].branch = "exit" =>
                \E h \in (i + 1)..(nodeLine[k] - 1) : lines[h] \in PrefixedLines

\* C8: a complete record line was read after the exit, with no header line
\* in between, and produced no record
C8_Witness ==
    \E i \in Scanned :
        \E j \in (i + 1)..Len(lines) :
            /\ sectionLog[i].branch = "exit"
            /\ \A h \in (i + 1)..j : lines[h] \notin PrefixedLines
            /\ lines[j] = L_nodeA
            /\ \A k \in 1..Len(nodes) : nodeLine[k] # j

\* C9: a stored pair is coerced by the ordered chain: key 'port' with a value
\* that parses as a finite number becomes a number; otherwise 'true' and
\* 'false' become booleans; otherwise the value stays a string.
C9_CoercionChain ==
    (PairDone /\ Len(Parts(LastPair)) = 2) =>
        props[Trim(Parts(LastPair)[1])]
            = ChainCoerce(Trim(Parts(LastPair)[1]), StripQuotes(Trim(Parts(LastPair)[2])))

\* C10: once every invocation has settled, the displayed nodes and error are
\* those of the invocation started last, and loading is true while any fetch
\* is in flight.
C10_LatestInvocationWins ==
    /\ (calls = {} /\ jobs = {} /\ started > 0) =>
          /\ outcome.done
          /\ stateNodes = outcome.nodes
          /\ error = outcome.error
    /\ calls # {} => loading

=============================================================================
